---- MODULE Spec2Model ----
(***************************************************************************)
(* The dot game of wkolean/dot-game: dots spawn above a canvas, fall at a  *)
(* user-controlled speed and are scored by pointer events.  The repository *)
(* holds four versions of the same engine; the model carries all four and  *)
(* a behaviour runs one of them:                                           *)
(*   "rAF"      src/unnamed/part_001     (30 fps, requestAnimationFrame)   *)
(*   "stroke"   src/public/index.js:1    (one path for all dots)           *)
(*   "absolute" src/unnamed/part_000     (absolute pixel x)                *)
(*   "percent"  src/public/index.js:334  (percent x, resize, PROPAGATE)    *)
(* Lengths are integers in units of 1/Unit pixel.  A JavaScript number is  *)
(* a record [nan, v]: NaN is a value the speed can take.                   *)
(***************************************************************************)
EXTENDS Integers, Sequences, FiniteSets

VARIABLES
    variant,         \* which version of the engine runs
    PROPAGATE_HITS,  \* options_.PROPAGATE_HITS (percent version)
    pc,              \* "constructed" until begin() has run, then "running"
    boardWidth_, boardHeight_, boardOffsets_, resize_,
    speed_, score_,
    scoreText,       \* the score element's text: <<>> as long as none was
                     \* written, <<n>> once the score n was displayed
    dots_,           \* sequence of [id, r, x, y]; id is the spawn number
    path,            \* the canvas's current path, a set of circles [x, y, r],
                     \* in the versions that test it (rAF, stroke); the other
                     \* two begin a new path before every test
    timeouts,        \* pending setTimeout(addDot_) callbacks
    rafQueue,        \* pending requestAnimationFrame(render_) callbacks
    spawned,         \* history: dots pushed so far
    scored,          \* history: the scored dots, as they were when scored
    expired,         \* history: ids removed by expireDots_
    fired,           \* history: respawn callbacks that have run
    timerSpawns,     \* history: firings of the periodic spawn timer
    ticks,           \* history: runs of render_
    pointers,        \* history: pointer events handled
    probe            \* inputs and results of the pure functions under test

vars == <<variant, PROPAGATE_HITS, pc, boardWidth_, boardHeight_,
          boardOffsets_, resize_, speed_, score_, scoreText, dots_, path,
          timeouts, rafQueue, spawned, scored, expired, fired, timerSpawns,
          ticks, pointers, probe>>

----------------------------------------------------------------------------
(* Options *)

FRAMES_PER_SECOND == 60
FRAMES_PER_SECOND_RAF == 30
MIN_DOT_DIAMETER == 10
MAX_DOT_DIAMETER == 100
STROKE_WIDTH == 1
BOARD_INNER_PADDING == 5

\* Units per pixel: a multiple of both frame rates, of 2 (radius =
\* diameter / 2) and of 100 (percent positions).
Unit == 5 * FRAMES_PER_SECOND

Variants == {"rAF", "stroke", "absolute", "percent"}

fps == IF variant = "rAF" THEN FRAMES_PER_SECOND_RAF ELSE FRAMES_PER_SECOND

----------------------------------------------------------------------------
(* Bounds of the model *)

MaxTicks == 2
MaxSpawns == 1
MaxPointers == 1
MaxScored == 2
MaxFloatTicks == 8
MaxFallTicks == 708
MaxExpireLen == 3

\* Math.random() yields p / RandDen
RandDen == 2 ^ 8
RadiusRandoms == {0, 255}
XRandoms == {0}

\* getBoundingClientRect() of the canvas, in pixels: at construction, and the
\* ones a later call can return
InitRect == [width |-> 240, height |-> 40, left |-> 0, top |-> 0]
Rects == { InitRect,
           [width |-> 100, height |-> 20, left |-> 10, top |-> 10] }

\* values of the speed input, as character sequences
SpeedInputs == { <<>>, <<"2", "8", "8", "0">>, <<"-", "2", "8", "8", "0">> }

\* pointer events: (pageX, pageY) in pixels
Points == { <<11, 42>>, <<56, 45>> }

----------------------------------------------------------------------------
(* JavaScript numbers *)

Num(v) == [nan |-> FALSE, v |-> v]
NaN == [nan |-> TRUE, v |-> 0]
Plus(a, b) == IF a.nan \/ b.nan THEN NaN ELSE Num(a.v + b.v)
\* a > b: false when either side is NaN
Gt(a, b) == ~a.nan /\ ~b.nan /\ a.v > b.v

DigitChars == <<"0", "1", "2", "3", "4", "5", "6", "7", "8", "9">>
IsDigit(c) == \E i \in 1..10 : DigitChars[i] = c
DigitVal(c) == (CHOOSE i \in 1..10 : DigitChars[i] = c) - 1

RECURSIVE ParseDigits(_, _, _)
ParseDigits(s, acc, seen) ==
    IF s = <<>> \/ ~IsDigit(Head(s))
    THEN [seen |-> seen, v |-> acc, rest |-> s]
    ELSE ParseDigits(Tail(s), acc * 10 + DigitVal(Head(s)), TRUE)

\* parseInt(s, 10): optional sign, then the longest run of digits; NaN when
\* there is none
parseInt(s) ==
    LET neg == s # <<>> /\ Head(s) = "-"
        body == IF neg THEN Tail(s) ELSE s
        p == ParseDigits(body, 0, FALSE)
    IN  IF ~p.seen THEN NaN ELSE Num(IF neg THEN -p.v ELSE p.v)

\* the coercion of a string by the division speed_ / fps: the empty string
\* is 0, and the whole string has to be a number
ToNumber(s) ==
    LET neg == s # <<>> /\ Head(s) = "-"
        body == IF neg THEN Tail(s) ELSE s
        p == ParseDigits(body, 0, FALSE)
    IN  IF s = <<>> THEN Num(0)
        ELSE IF ~p.seen \/ p.rest # <<>> THEN NaN
        ELSE Num(IF neg THEN -p.v ELSE p.v)

----------------------------------------------------------------------------
(* JavaScript numbers as IEEE 754 doubles: sign, 53-bit significand, power   *)
(* of two.  A natural number is a sequence of bits, most significant first. *)
(* A double is [neg, m, e] of value (-1)^neg * m * 2^e, with m of 53 bits    *)
(* and leading bit 1, or m = <<>> for zero.  The magnitudes of the game are  *)
(* far from overflow and from the subnormal range.                          *)

SignificandBits == 53

Zeros(n) == [i \in 1..n |-> 0]

\* b without its leading zeros
Strip(b) ==
    LET ones == {k \in 1..Len(b) : b[k] = 1}
    IN  IF ones = {} THEN <<>>
        ELSE SubSeq(b, CHOOSE k \in ones : \A j \in ones : k <= j, Len(b))

RECURSIVE BitsOf(_)
BitsOf(n) == IF n = 0 THEN <<>> ELSE Append(BitsOf(n \div 2), n % 2)

PadTo(b, n) == Zeros(n - Len(b)) \o b

\* the arithmetic goes by groups of eight bits
Longer(a, b) == IF Len(a) > Len(b) THEN Len(a) ELSE Len(b)
Whole8(n) == 8 * ((n + 7) \div 8)
\* the value of the c-th group of eight bits of b
Byte(b, c) ==
    LET i == 8 * (c - 1)
    IN  b[i + 1] * 128 + b[i + 2] * 64 + b[i + 3] * 32 + b[i + 4] * 16
           + b[i + 5] * 8 + b[i + 6] * 4 + b[i + 7] * 2 + b[i + 8]
\* bit k of the number whose groups of eight bits are v[1], v[2], ...
BitOfBytes(v, k) ==
    LET c == (k - 1) \div 8 + 1
        o == (k - 1) % 8
    IN  ((v[c] % 256) \div (2 ^ (7 - o))) % 2

\* a + b
AddBits(a, b) ==
    LET n == Whole8(Longer(a, b) + 1)
        A == PadTo(a, n)
        B == PadTo(b, n)
        C == n \div 8
        S[c \in 1..C] ==
            Byte(A, c) + Byte(B, c) + (IF c = C THEN 0 ELSE S[c + 1] \div 256)
    IN  Strip([k \in 1..n |-> BitOfBytes(S, k)])

\* a - b, for a >= b
SubBits(a, b) ==
    LET n == Whole8(Longer(a, b))
        A == PadTo(a, n)
        B == PadTo(b, n)
        C == n \div 8
        D[c \in 1..C] ==
            Byte(A, c) - Byte(B, c)
               - (IF c = C THEN 0 ELSE IF D[c + 1] < 0 THEN 1 ELSE 0)
    IN  Strip([k \in 1..n |-> BitOfBytes([c \in 1..C |-> D[c] + 256], k)])

\* a < b
LessBits(a, b) ==
    LET n == Longer(a, b)
        A == PadTo(a, n)
        B == PadTo(b, n)
        D == {k \in 1..n : A[k] # B[k]}
    IN  D # {} /\ A[CHOOSE k \in D : \A j \in D : k <= j] = 0

\* the bits b (value b * 2^e, with a sticky flag for what was cut off below
\* them) rounded to 53 bits, to nearest, ties to even
RoundBits(neg, bits, e, sticky) ==
    LET b == Strip(bits)
        n == Len(b)
    IN  IF n = 0 THEN [neg |-> FALSE, m |-> <<>>, e |-> 0]
        ELSE IF n <= SignificandBits
        THEN [neg |-> neg, m |-> b \o Zeros(SignificandBits - n),
              e |-> e - (SignificandBits - n)]
        ELSE LET head == SubSeq(b, 1, SignificandBits)
                 guard == b[SignificandBits + 1]
                 rest == sticky \/ \E k \in (SignificandBits + 2)..n : b[k] = 1
                 up == guard = 1 /\ (rest \/ head[SignificandBits] = 1)
                 r == IF up THEN AddBits(head, <<1>>) ELSE head
                 cut == n - SignificandBits
             IN  IF Len(r) > SignificandBits
                 THEN [neg |-> neg, m |-> SubSeq(r, 1, SignificandBits),
                       e |-> e + cut + 1]
                 ELSE [neg |-> neg, m |-> r, e |-> e + cut]

\* long division of the bits b by the small number f, eight bits at a time:
\* quotient and remainder
DivBits(b, f) ==
    LET n == Whole8(Len(b))
        B == PadTo(b, n)
        C == n \div 8
        \* the remainder carried into group c, with that group appended
        R[c \in 1..C] ==
            (IF c = 1 THEN 0 ELSE R[c - 1] % f) * 256 + Byte(B, c)
    IN  [q |-> Strip([k \in 1..n |->
                        BitOfBytes([c \in 1..C |-> R[c] \div f], k)]),
         rem |-> IF C = 0 THEN 0 ELSE R[C] % f]

\* the double of value n * 2^e, n an integer
FromInt(n, e) ==
    RoundBits(n < 0, BitsOf(IF n < 0 THEN -n ELSE n), e, FALSE)

\* s / f for integers s and f > 0: the quotient to DivisionBits binary places
\* and a sticky remainder, rounded
DivisionBits == 64

FDiv(s, f) ==
    LET a == IF s < 0 THEN -s ELSE s
        d == DivBits(BitsOf(a) \o Zeros(DivisionBits), f)
    IN  RoundBits(s < 0, d.q, -DivisionBits, d.rem # 0)

\* a + b
FAdd(a, b) ==
    IF a.m = <<>> THEN b
    ELSE IF b.m = <<>> THEN a
    ELSE LET e == IF a.e < b.e THEN a.e ELSE b.e
             A == a.m \o Zeros(a.e - e)
             B == b.m \o Zeros(b.e - e)
         IN  IF a.neg = b.neg THEN RoundBits(a.neg, AddBits(A, B), e, FALSE)
             ELSE IF LessBits(A, B)
             THEN RoundBits(b.neg, SubBits(B, A), e, FALSE)
             ELSE RoundBits(a.neg, SubBits(A, B), e, FALSE)

----------------------------------------------------------------------------
(* Pure helpers *)

\* Math.floor(Math.random() * (max - min + 1)) + min, on integers, with
\* Math.random() = p / RandDen
getRandomNumber_(min, max, p) == ((p * (max - min + 1)) \div RandDen) + min

\* getRandomRadius_ returning the diameter, not its half
getRandomRadiusDiameter(p) ==
    getRandomNumber_(MIN_DOT_DIAMETER, MAX_DOT_DIAMETER, p) * Unit

\* the radius in units: diameter / 2
getRandomRadius_(p) ==
    (getRandomNumber_(MIN_DOT_DIAMETER, MAX_DOT_DIAMETER, p) * Unit) \div 2

getRandomPercent_(p) == getRandomNumber_(0, 100, p)

\* absolute x in units; min and max are whole or half pixels, and the random
\* term is a whole number of pixels
getRandomX_(radius, p) ==
    LET padding == BOARD_INNER_PADDING * Unit
        min == radius + STROKE_WIDTH * Unit + padding
        max == boardWidth_ - radius - STROKE_WIDTH * Unit - padding
    IN  ((p * ((max - min) \div Unit + 1)) \div RandDen) * Unit + min

\* percentToPixel_ spreading the centres over the whole width of the board
percentToPixelCentre(dot, w) == (w * dot.x) \div 100

\* x in units of a dot whose x is a percentage, on a board of width w
percentToPixelOn(dot, w) ==
    LET padding == BOARD_INNER_PADDING * Unit
        min == dot.r + STROKE_WIDTH * Unit + padding
        max == w - dot.r - STROKE_WIDTH * Unit - padding
    IN  ((max - min) * dot.x) \div 100 + min

percentToPixel_(dot) == percentToPixelOn(dot, boardWidth_)

\* calculateDotScore with MIN_DOT_DIAMETER in the place of MAX_DOT_DIAMETER
calculateDotScoreMin(radius) ==
    LET diameter == radius * 2
    IN  (2 * MIN_DOT_DIAMETER * Unit + diameter) \div (2 * diameter)

\* calculateDotScore proportional, not inversely proportional, to the size
calculateDotScoreProportional(radius) ==
    LET diameter == radius * 2
    IN  (2 * diameter + MIN_DOT_DIAMETER * Unit) \div (2 * MIN_DOT_DIAMETER * Unit)

\* calculateDotScore with the radius in the place of the diameter
calculateDotScoreRadius(radius) ==
    (2 * MAX_DOT_DIAMETER * Unit + radius) \div (2 * radius)

\* Math.round(MAX_DOT_DIAMETER / diameter): halves round up
calculateDotScore(radius) ==
    LET diameter == radius * 2
    IN  (2 * MAX_DOT_DIAMETER * Unit + diameter) \div (2 * diameter)

\* the pixel x at which a dot is drawn and hit-tested on a board of width w
\* resolveX on the width the board had at construction
resolveXInitial(dot, w) ==
    IF variant = "percent"
    THEN percentToPixelOn(dot, InitRect.width * Unit)
    ELSE dot.x

\* the x drawDot_ passes to ctx.arc
resolveX(dot, w) ==
    IF variant = "percent" THEN percentToPixelOn(dot, w) ELSE dot.x

\* the circle ctx.arc adds to the path; arc ignores a NaN argument
drawDot_(dot, w) ==
    IF dot.y.nan THEN {}
    ELSE {[x |-> resolveX(dot, w), y |-> dot.y.v, r |-> dot.r]}

\* isPointInPath(x, y) against a set of circles, border included
InCircle(c, x, y) ==
    LET dx == IF x >= c.x THEN x - c.x ELSE c.x - x
        dy == IF y >= c.y THEN y - c.y ELSE c.y - y
    IN  dx <= c.r /\ dy <= c.r /\ dx * dx + dy * dy <= c.r * c.r

isPointInPath(p, x, y) == \E c \in p : InCircle(c, x, y)

\* the test scoreTopDot_, scoreAllDots_ and scoreDots_ make on one dot:
\* a fresh path holding the dot's circle, then isPointInPath
Contains(dot, x, y) == isPointInPath(drawDot_(dot, boardWidth_), x, y)

\* IsExpired with >= in the place of >
IsExpiredAtEdge(dot, h) ==
    ~dot.y.nan /\ dot.y.v - dot.r - STROKE_WIDTH * Unit >= h

\* IsExpired testing the bottom edge of the dot, not its top edge
IsExpiredBottomEdge(dot, h) ==
    Gt(Plus(dot.y, Num(dot.r + STROKE_WIDTH * Unit)), Num(h))

\* the condition expireDots_ tests on a dot, on a board of height h
IsExpired(dot, h) ==
    Gt(Plus(dot.y, Num(-dot.r - STROKE_WIDTH * Unit)), Num(h))

\* expireDots_: the number of dots the do-while loop counts from index 0
RECURSIVE expireCount(_, _, _)
expireCount(ds, i, h) ==
    IF i < Len(ds) /\ IsExpired(ds[i + 1], h)
    THEN expireCount(ds, i + 1, h)
    ELSE i

\* the array after this.dots_.splice(0, i)
expireDots_(ds, h) ==
    LET i == IF Len(ds) = 0 THEN 0 ELSE expireCount(ds, 0, h)
    IN  SubSeq(ds, i + 1, Len(ds))

\* topHit scanning from the oldest dot (i arrives as Len(ds))
RECURSIVE topHitOldest(_, _, _, _)
topHitOldest(ds, i, x, y) ==
    LET k == Len(ds) - i + 1
    IN  IF i = 0 THEN 0
        ELSE IF Contains(ds[k], x, y) THEN k
        ELSE topHitOldest(ds, i - 1, x, y)

\* scoreTopDot_: the index (from 1) the while (i--) loop stops at, 0 when it
\* runs off the front of the array
RECURSIVE topHit(_, _, _, _)
topHit(ds, i, x, y) ==
    IF i = 0 THEN 0
    ELSE IF Contains(ds[i], x, y) THEN i
    ELSE topHit(ds, i - 1, x, y)

\* the array when the splice of scoreTopDot_ is left out
RemoveAtKeep(ds, i) == ds

\* the array after this.dots_.splice(i, 1)
RemoveAt(ds, i) == SubSeq(ds, 1, i - 1) \o SubSeq(ds, i + 1, Len(ds))

\* filterHits that stops testing after the first hit
RECURSIVE filterFirstHit(_, _, _, _)
filterFirstHit(ds, x, y, acc) ==
    IF ds = <<>> THEN acc
    ELSE IF acc.hits = <<>> /\ Contains(Head(ds), x, y)
         THEN filterFirstHit(Tail(ds), x, y,
                             [acc EXCEPT !.hits = Append(@, Head(ds))])
         ELSE filterFirstHit(Tail(ds), x, y,
                             [acc EXCEPT !.kept = Append(@, Head(ds))])

\* scoreAllDots_ / scoreDots_: the filter callback over the array in order;
\* kept is the new array, hits the dots the callback scored
RECURSIVE filterHits(_, _, _, _)
filterHits(ds, x, y, acc) ==
    IF ds = <<>> THEN acc
    ELSE IF Contains(Head(ds), x, y)
         THEN filterHits(Tail(ds), x, y,
                         [acc EXCEPT !.hits = Append(@, Head(ds))])
         ELSE filterHits(Tail(ds), x, y,
                         [acc EXCEPT !.kept = Append(@, Head(ds))])

\* increaseScore_ with = in the place of +=
RECURSIVE increaseScoreAssign(_, _)
increaseScoreAssign(s, hits) ==
    IF hits = <<>> THEN s
    ELSE increaseScoreAssign(calculateDotScore(Head(hits).r), Tail(hits))

\* increaseScore_ / addToScore_ applied to each scored dot in turn
RECURSIVE increaseScore_(_, _)
increaseScore_(s, hits) ==
    IF hits = <<>> THEN s
    ELSE increaseScore_(s + calculateDotScore(Head(hits).r), Tail(hits))

\* the spawn position above the board
spawnY(radius) ==
    IF variant \in {"absolute", "percent"}
    THEN -radius - STROKE_WIDTH * Unit
    ELSE -radius

Range(seq) == {seq[i] : i \in 1..Len(seq)}
NoProbe == [kind |-> "none"]
Ids(seq) == {seq[i].id : i \in 1..Len(seq)}

----------------------------------------------------------------------------
(* State after the constructor *)

InitGame ==
    /\ variant \in Variants
    /\ PROPAGATE_HITS \in (IF variant = "percent" THEN BOOLEAN ELSE {TRUE})
    /\ pc = "constructed"
    /\ boardWidth_ = InitRect.width * Unit
    /\ boardHeight_ = InitRect.height * Unit
    /\ boardOffsets_ = [x |-> InitRect.left * Unit, y |-> InitRect.top * Unit]
    /\ resize_ = FALSE
    /\ \E s \in SpeedInputs :
          speed_ = IF variant \in {"absolute", "percent"}
                   THEN parseInt(s) ELSE ToNumber(s)
    /\ score_ = 0
    /\ scoreText = <<>>
    /\ dots_ = <<>>
    /\ path = {}
    /\ timeouts = 0
    /\ rafQueue = 0
    /\ spawned = 0
    /\ scored = {}
    /\ expired = {}
    /\ fired = 0
    /\ timerSpawns = 0
    /\ ticks = 0
    /\ pointers = 0

Init == InitGame /\ probe = NoProbe

----------------------------------------------------------------------------
(* Operations *)

\* addDot_ with unshift in the place of push
addDotFront_(pr, px) ==
    LET radius == getRandomRadius_(pr)
        x == IF variant = "percent" THEN getRandomPercent_(px)
             ELSE getRandomX_(radius, px)
        dot == [id |-> spawned + 1, r |-> radius, x |-> x,
                y |-> Num(spawnY(radius))]
    IN  /\ dots_' = <<dot>> \o dots_
        /\ spawned' = spawned + 1

\* addDot_ with the two Math.random() results pr / RandDen and px / RandDen
addDot_(pr, px) ==
    LET radius == getRandomRadius_(pr)
        x == IF variant = "percent" THEN getRandomPercent_(px)
             ELSE getRandomX_(radius, px)
        dot == [id |-> spawned + 1, r |-> radius, x |-> x,
                y |-> Num(spawnY(radius))]
    IN  /\ dots_' = Append(dots_, dot)
        /\ spawned' = spawned + 1

\* begin that arms the two timers and adds no dot, in every version
beginNoDot ==
    /\ pc = "constructed"
    /\ pc' = "running"
    /\ UNCHANGED <<dots_, spawned>>
    /\ UNCHANGED <<variant, PROPAGATE_HITS, boardWidth_, boardHeight_,
                   boardOffsets_, resize_, speed_, score_, scoreText, path,
                   timeouts, rafQueue, scored, expired, fired, timerSpawns,
                   ticks, pointers,
                   probe>>

begin ==
    /\ pc = "constructed"
    /\ pc' = "running"
    /\ IF variant = "rAF"
       THEN UNCHANGED <<dots_, spawned>>
       ELSE \E pr \in RadiusRandoms, px \in XRandoms : addDot_(pr, px)
    /\ UNCHANGED <<variant, PROPAGATE_HITS, boardWidth_, boardHeight_,
                   boardOffsets_, resize_, speed_, score_, scoreText, path,
                   timeouts, rafQueue, scored, expired, fired, timerSpawns,
                   ticks, pointers,
                   probe>>

\* the periodic spawn timer fires
spawnTimer ==
    /\ pc = "running"
    /\ timerSpawns < MaxSpawns
    /\ \E pr \in RadiusRandoms, px \in XRandoms : addDot_(pr, px)
    /\ timerSpawns' = timerSpawns + 1
    /\ UNCHANGED <<variant, PROPAGATE_HITS, pc, boardWidth_, boardHeight_,
                   boardOffsets_, resize_, speed_, score_, scoreText, path,
                   timeouts, rafQueue, scored, expired, fired, ticks,
                   pointers,
                   probe>>

\* a respawn timeout set by a scored hit fires
respawn ==
    /\ pc = "running"
    /\ timeouts > 0
    /\ \E pr \in RadiusRandoms, px \in XRandoms : addDot_(pr, px)
    /\ timeouts' = timeouts - 1
    /\ fired' = fired + 1
    /\ UNCHANGED <<variant, PROPAGATE_HITS, pc, boardWidth_, boardHeight_,
                   boardOffsets_, resize_, speed_, score_, scoreText, path,
                   rafQueue, scored, expired, timerSpawns, ticks, pointers,
                   probe>>

\* dy with the sign turned: dot.y -= dy
displacementUp ==
    IF speed_.nan THEN NaN ELSE Num(-((speed_.v * Unit) \div fps))

\* dy without the division by the frame rate
displacementPerSecond ==
    IF speed_.nan THEN NaN ELSE Num(speed_.v * Unit)

\* const dy = this.speed_ / FRAMES_PER_SECOND, in units
displacement ==
    IF speed_.nan THEN NaN ELSE Num((speed_.v * Unit) \div fps)

\* render_ writing the pixel x it draws at back into the dot
renderOnStoreX(w, h) ==
    LET dy == displacement
        moved == [i \in 1..Len(dots_) |->
                     [dots_[i] EXCEPT !.y = Plus(@, dy),
                                      !.x = resolveX(dots_[i], w)]]
        left == IF variant = "rAF" THEN moved ELSE expireDots_(moved, h)
    IN  /\ dots_' = left
        /\ expired' = expired \cup (Ids(moved) \ Ids(left))
        /\ path' = IF variant \in {"rAF", "stroke"}
                   THEN UNION {drawDot_(moved[i], w) : i \in 1..Len(moved)}
                   ELSE path
        /\ ticks' = ticks + 1

\* what render_ does to the dots and the path once the board geometry w, h
\* is settled
renderDots(w, h) ==
    LET dy == displacement
        moved == [i \in 1..Len(dots_) |->
                     [dots_[i] EXCEPT !.y = Plus(@, dy)]]
        left == IF variant = "rAF" THEN moved ELSE expireDots_(moved, h)
    IN  /\ dots_' = left
        /\ expired' = expired \cup (Ids(moved) \ Ids(left))
        /\ path' = IF variant \in {"rAF", "stroke"}
                   THEN UNION {drawDot_(moved[i], w) : i \in 1..Len(moved)}
                   ELSE path

\* render_ once the board geometry w, h is settled; ticks counts the calls
renderOn(w, h) ==
    /\ renderDots(w, h)
    /\ ticks' = ticks + 1

render_ ==
    /\ IF variant = "percent" /\ resize_
       THEN \E rect \in Rects :
               /\ boardWidth_' = rect.width * Unit
               /\ boardHeight_' = rect.height * Unit
               /\ boardOffsets_' = [x |-> rect.left * Unit,
                                    y |-> rect.top * Unit]
               /\ resize_' = FALSE
               /\ renderOn(rect.width * Unit, rect.height * Unit)
       ELSE /\ UNCHANGED <<boardWidth_, boardHeight_, boardOffsets_, resize_>>
            /\ renderOn(boardWidth_, boardHeight_)
    /\ UNCHANGED <<variant, PROPAGATE_HITS, pc, speed_, score_, scoreText,
                   timeouts, spawned, scored, fired, timerSpawns, pointers>>

\* the frame timer fires
tick ==
    /\ pc = "running"
    /\ variant # "rAF"
    /\ ticks < MaxTicks
    /\ render_
    /\ UNCHANGED <<rafQueue, probe>>

\* the frame timer of the rAF version: updateBoard
updateBoard ==
    /\ pc = "running"
    /\ variant = "rAF"
    /\ ticks + rafQueue < MaxTicks
    /\ rafQueue' = rafQueue + 1
    /\ UNCHANGED <<variant, PROPAGATE_HITS, pc, boardWidth_, boardHeight_,
                   boardOffsets_, resize_, speed_, score_, scoreText, dots_,
                   path, timeouts, spawned, scored, expired, fired,
                   timerSpawns, ticks, pointers,
                   probe>>

\* a requestAnimationFrame callback runs
animationFrame ==
    /\ pc = "running"
    /\ rafQueue > 0
    /\ rafQueue' = rafQueue - 1
    /\ render_
    /\ UNCHANGED probe

\* the outcome of a hit attempt: the new array, the scored dots, and the
\* last dot whose circle was put on the path (0: none)
scoreTopDot_(x, y) ==
    LET i == topHit(dots_, Len(dots_), x, y)
    IN  [kept |-> IF i > 0 THEN RemoveAt(dots_, i) ELSE dots_,
         hits |-> IF i > 0 THEN <<dots_[i]>> ELSE <<>>,
         last |-> IF dots_ = <<>> THEN 0 ELSE IF i > 0 THEN i ELSE 1]

scoreAllDots_(x, y) ==
    LET f == filterHits(dots_, x, y, [kept |-> <<>>, hits |-> <<>>])
    IN  [kept |-> f.kept, hits |-> f.hits, last |-> Len(dots_)]

noScore == [kept |-> dots_, hits |-> <<>>, last |-> 0]

\* the versions that test the current path get one pointer event more: there
\* the outcome of an event depends on the event before it
maxPointers ==
    IF variant \in {"rAF", "stroke"} THEN MaxPointers + 1 ELSE MaxPointers

\* setTimeout for every pointer event, scored or not
setTimeoutPerEvent(pending, hits) == pending + 1

\* setTimeout once for a pointer event, not once for a scored dot
setTimeoutOnce(pending, hits) ==
    pending + (IF hits = <<>> THEN 0 ELSE 1)

\* the pending timeouts after setTimeout(addDot_) for each scored dot
setTimeout(pending, hits) == pending + Len(hits)

hitAttempt_(pageX, pageY) ==
    LET x == pageX * Unit - boardOffsets_.x
        y == pageY * Unit - boardOffsets_.y
        out == IF variant = "percent"
               THEN IF PROPAGATE_HITS THEN scoreAllDots_(x, y)
                    ELSE scoreTopDot_(x, y)
               ELSE IF variant = "absolute" THEN scoreAllDots_(x, y)
               ELSE IF isPointInPath(path, x, y) THEN scoreAllDots_(x, y)
               ELSE noScore
    IN  /\ pc = "running"
        /\ pointers < maxPointers
        /\ Cardinality(scored) + Len(out.hits) <= MaxScored
        /\ pointers' = pointers + 1
        /\ dots_' = out.kept
        /\ score_' = increaseScore_(score_, out.hits)
        /\ scoreText' = IF out.hits = <<>> THEN scoreText ELSE <<score_'>>
        /\ timeouts' = setTimeout(timeouts, out.hits)
        /\ scored' = scored \cup Range(out.hits)
        /\ path' = IF out.last = 0 \/ variant \in {"absolute", "percent"}
                   THEN path
                   ELSE drawDot_(dots_[out.last], boardWidth_)
        /\ UNCHANGED <<variant, PROPAGATE_HITS, pc, boardWidth_,
                       boardHeight_, boardOffsets_, resize_, speed_,
                       rafQueue, spawned, expired, fired, timerSpawns,
                       ticks,
                   probe>>

\* setSpeed_ that also moves the dots by the new dy
setSpeedMoving_(s) ==
    /\ pc = "running"
    /\ speed_' = parseInt(s)
    /\ dots_' = [i \in 1..Len(dots_) |->
                   [dots_[i] EXCEPT !.y =
                       Plus(@, IF parseInt(s).nan THEN NaN
                               ELSE Num((parseInt(s).v * Unit) \div fps))]]
    /\ UNCHANGED <<variant, PROPAGATE_HITS, pc, boardWidth_, boardHeight_,
                   boardOffsets_, resize_, score_, scoreText, path,
                   timeouts, rafQueue, spawned, scored, expired, fired,
                   timerSpawns, ticks, pointers,
                   probe>>

\* setSpeed_ easing the speed towards the new value
setSpeedSmoothed_(s) ==
    /\ pc = "running"
    /\ speed_' = IF speed_.nan \/ parseInt(s).nan THEN parseInt(s)
                 ELSE Num((speed_.v + parseInt(s).v) \div 2)
    /\ UNCHANGED <<variant, PROPAGATE_HITS, pc, boardWidth_, boardHeight_,
                   boardOffsets_, resize_, score_, scoreText, dots_, path,
                   timeouts, rafQueue, spawned, scored, expired, fired,
                   timerSpawns, ticks, pointers,
                   probe>>

setSpeed_(s) ==
    /\ pc = "running"
    /\ speed_' = parseInt(s)
    /\ UNCHANGED <<variant, PROPAGATE_HITS, pc, boardWidth_, boardHeight_,
                   boardOffsets_, resize_, score_, scoreText, dots_, path,
                   timeouts, rafQueue, spawned, scored, expired, fired,
                   timerSpawns, ticks, pointers,
                   probe>>

\* resizeBoard_ recomputing the geometry at once
resizeBoardInline_ ==
    /\ pc = "running"
    /\ variant = "percent"
    /\ \E rect \in Rects :
          /\ boardWidth_' = rect.width * Unit
          /\ boardHeight_' = rect.height * Unit
          /\ boardOffsets_' = [x |-> rect.left * Unit, y |-> rect.top * Unit]
    /\ resize_' = FALSE
    /\ UNCHANGED <<variant, PROPAGATE_HITS, pc, speed_, score_, scoreText,
                   dots_, path, timeouts, rafQueue, spawned, scored, expired,
                   fired, timerSpawns, ticks, pointers, probe>>

resizeBoard_ ==
    /\ pc = "running"
    /\ variant = "percent"
    /\ resize_' = TRUE
    /\ UNCHANGED <<variant, PROPAGATE_HITS, pc, boardWidth_, boardHeight_,
                   boardOffsets_, speed_, score_, scoreText, dots_, path,
                   timeouts, rafQueue, spawned, scored, expired, fired,
                   timerSpawns, ticks, pointers,
                   probe>>

Next ==
    \/ begin
    \/ spawnTimer
    \/ respawn
    \/ tick
    \/ updateBoard
    \/ animationFrame
    \/ \E p \in Points : hitAttempt_(p[1], p[2])
    \/ \E s \in SpeedInputs : setSpeed_(s)
    \/ resizeBoard_

Spec == Init /\ [][Next]_vars

SpecRespawn == Spec /\ WF_vars(respawn)

----------------------------------------------------------------------------
(* calculateDotScore on every pair of radii getRandomRadius_ can return *)

ScoreInit ==
    /\ InitGame
    /\ variant = "percent"
    /\ PROPAGATE_HITS = FALSE
    /\ speed_ = NaN
    /\ probe \in {[kind |-> "score", r1 |-> getRandomRadius_(a),
                   r2 |-> getRandomRadius_(b), done |-> FALSE,
                   s1 |-> 0, s2 |-> 0] : a, b \in 0..(RandDen - 1)}

probeScore ==
    /\ probe.kind = "score"
    /\ ~probe.done
    /\ probe' = [probe EXCEPT !.done = TRUE,
                              !.s1 = calculateDotScore(probe.r1),
                              !.s2 = calculateDotScore(probe.r2)]
    /\ UNCHANGED <<variant, PROPAGATE_HITS, pc, boardWidth_, boardHeight_,
                   boardOffsets_, resize_, speed_, score_, scoreText, dots_,
                   path, timeouts, rafQueue, spawned, scored, expired, fired,
                   timerSpawns, ticks, pointers>>

ScoreNext == probeScore

ScoreSpec == ScoreInit /\ [][ScoreNext]_vars

----------------------------------------------------------------------------
(* addDot_ on every outcome of Math.random() for the radius, on boards of   *)
(* several widths                                                           *)

\* board widths in pixels, around MAX_DOT_DIAMETER + 2 * STROKE_WIDTH +
\* BOARD_INNER_PADDING = 107
SpawnWidths == {100, 106, 107, 111, 112, 240}
PlacementRandoms == {0, 1, 128, 255}

SpawnInit ==
    /\ variant \in Variants
    /\ PROPAGATE_HITS \in (IF variant = "percent" THEN {FALSE} ELSE {TRUE})
    /\ pc = "constructed"
    /\ \E w \in SpawnWidths : boardWidth_ = w * Unit
    /\ boardHeight_ = InitRect.height * Unit
    /\ boardOffsets_ = [x |-> InitRect.left * Unit, y |-> InitRect.top * Unit]
    /\ resize_ = FALSE
    /\ speed_ = IF variant \in {"absolute", "percent"}
                THEN parseInt(<<>>) ELSE ToNumber(<<>>)
    /\ score_ = 0
    /\ scoreText = <<>>
    /\ dots_ = <<>>
    /\ path = {}
    /\ timeouts = 0
    /\ rafQueue = 0
    /\ spawned = 0
    /\ scored = {}
    /\ expired = {}
    /\ fired = 0
    /\ timerSpawns = 0
    /\ ticks = 0
    /\ pointers = 0
    /\ probe = [kind |-> "spawn"]

\* begin, with every outcome for the radius of its dot
spawnBegin ==
    /\ pc = "constructed"
    /\ pc' = "running"
    /\ IF variant = "rAF"
       THEN UNCHANGED <<dots_, spawned>>
       ELSE \E pr \in 0..(RandDen - 1), px \in PlacementRandoms :
               addDot_(pr, px)
    /\ UNCHANGED <<variant, PROPAGATE_HITS, boardWidth_, boardHeight_,
                   boardOffsets_, resize_, speed_, score_, scoreText, path,
                   timeouts, rafQueue, scored, expired, fired, timerSpawns,
                   ticks, pointers, probe>>

\* the first firing of the spawn timer in the version whose begin adds no dot
spawnFirst ==
    /\ pc = "running"
    /\ dots_ = <<>>
    /\ \E pr \in 0..(RandDen - 1), px \in PlacementRandoms : addDot_(pr, px)
    /\ timerSpawns' = timerSpawns + 1
    /\ UNCHANGED <<variant, PROPAGATE_HITS, pc, boardWidth_, boardHeight_,
                   boardOffsets_, resize_, speed_, score_, scoreText, path,
                   timeouts, rafQueue, scored, expired, fired, ticks,
                   pointers, probe>>

SpawnNext == spawnBegin \/ spawnFirst

SpawnSpec == SpawnInit /\ [][SpawnNext]_vars

----------------------------------------------------------------------------
(* The percent version under resize: a first dot of any radius and          *)
(* position, then resizes, ticks, speed changes and pointer events          *)

ResizeInit ==
    /\ SpawnInit
    /\ variant = "percent"
    /\ boardWidth_ = InitRect.width * Unit

ResizeNext ==
    \/ spawnBegin
    \/ resizeBoard_
    \/ tick
    \/ \E p \in Points : hitAttempt_(p[1], p[2])
    \/ \E s \in SpeedInputs : setSpeed_(s)

ResizeSpec == ResizeInit /\ [][ResizeNext]_vars

----------------------------------------------------------------------------
(* The y of the first dot as the double the engine holds: render_ run at a  *)
(* constant speed, between spawns, pointer events and resizes               *)

\* speeds in pixels per second
FloatSpeeds == {10, 15, 60}

\* the double of a length that is a whole number of half pixels
FromUnits(u) == FromInt((2 * u) \div Unit, -1)

FloatInit ==
    /\ variant \in Variants
    /\ PROPAGATE_HITS \in (IF variant = "percent" THEN {FALSE} ELSE {TRUE})
    /\ pc = "constructed"
    /\ boardWidth_ = InitRect.width * Unit
    /\ boardHeight_ = InitRect.height * Unit
    /\ boardOffsets_ = [x |-> InitRect.left * Unit, y |-> InitRect.top * Unit]
    /\ resize_ = FALSE
    /\ \E s \in FloatSpeeds : speed_ = Num(s)
    /\ score_ = 0
    /\ scoreText = <<>>
    /\ dots_ = <<>>
    /\ path = {}
    /\ timeouts = 0
    /\ rafQueue = 0
    /\ spawned = 0
    /\ scored = {}
    /\ expired = {}
    /\ fired = 0
    /\ timerSpawns = 0
    /\ ticks = 0
    /\ pointers = 0
    /\ probe = [kind |-> "float", n |-> 0, y |-> FromInt(0, 0)]

\* render_, with the y of dot 1 followed as a double: dy = speed_ /
\* FRAMES_PER_SECOND, then dot.y += dy
floatTick ==
    /\ pc = "running"
    /\ probe.kind = "float"
    /\ ticks < MaxFloatTicks
    /\ render_
    /\ probe' = IF dots_ # <<>> /\ dots_[1].id = 1
                THEN [probe EXCEPT
                        !.n = @ + 1,
                        !.y = FAdd(IF probe.n = 0
                                   THEN FromUnits(dots_[1].y.v) ELSE @,
                                   FDiv(speed_.v, fps))]
                ELSE probe
    /\ UNCHANGED rafQueue

\* between the ticks: one younger dot, one pointer event, resizes
FloatNext ==
    \/ begin
    \/ floatTick
    \/ (Len(dots_) < 2 /\ spawnTimer)
    \/ resizeBoard_
    \/ (pointers = 0 /\ \E p \in Points : hitAttempt_(p[1], p[2]))

FloatSpec == FloatInit /\ [][FloatNext]_vars



----------------------------------------------------------------------------
(* One dot of radius 50 falling down a board 600 high at 60 pixels per      *)
(* second, from y = -55                                                     *)

FallRect == [width |-> 400, height |-> 600, left |-> 0, top |-> 0]
FallSpeed == <<"6", "0">>

FallInit ==
    /\ variant \in {"stroke", "absolute", "percent"}
    /\ PROPAGATE_HITS \in (IF variant = "percent" THEN {FALSE} ELSE {TRUE})
    /\ pc = "running"
    /\ boardWidth_ = FallRect.width * Unit
    /\ boardHeight_ = FallRect.height * Unit
    /\ boardOffsets_ = [x |-> FallRect.left * Unit, y |-> FallRect.top * Unit]
    /\ resize_ = FALSE
    /\ speed_ = parseInt(FallSpeed)
    /\ score_ = 0
    /\ scoreText = <<>>
    /\ dots_ = << [id |-> 1, r |-> (MAX_DOT_DIAMETER * Unit) \div 2,
                   x |-> IF variant = "percent" THEN getRandomPercent_(0)
                         ELSE getRandomX_((MAX_DOT_DIAMETER * Unit) \div 2, 0),
                   y |-> Num(-55 * Unit)] >>
    /\ path = {}
    /\ timeouts = 0
    /\ rafQueue = 0
    /\ spawned = 1
    /\ scored = {}
    /\ expired = {}
    /\ fired = 0
    /\ timerSpawns = 0
    /\ ticks = 0
    /\ pointers = 0
    /\ probe = [kind |-> "fall"]

\* the frame timer fires
fallTick ==
    /\ pc = "running"
    /\ probe.kind = "fall"
    /\ ticks < MaxFallTicks
    /\ render_
    /\ UNCHANGED <<rafQueue, probe>>

FallNext == fallTick

FallSpec == FallInit /\ [][FallNext]_vars

----------------------------------------------------------------------------
(* expireDots_ statement by statement, on every list of up to MaxExpireLen  *)
(* dots that are above, at and below the bottom of the board or have a NaN  *)
(* y: probe holds the array, the loop variable i, the indices read so far,  *)
(* the place in the function and the array it leaves                        *)

ExpireYs == { NaN, Num(0), Num(91 * Unit), Num(100 * Unit) }

ExpireDots ==
    {[id |-> 0, r |-> (d * Unit) \div 2, x |-> 0, y |-> y] :
        d \in {MIN_DOT_DIAMETER, MAX_DOT_DIAMETER}, y \in ExpireYs}

ExpireLists ==
    UNION {[1..n -> ExpireDots] : n \in 0..MaxExpireLen}

ExpireInit ==
    /\ InitGame
    /\ variant # "rAF"
    /\ PROPAGATE_HITS = TRUE
    /\ speed_ = NaN
    /\ probe \in {[kind |-> "expire", ds |-> ds, i |-> 0, reads |-> {},
                   at |-> "enter", out |-> ds] : ds \in ExpireLists}

\* if (!this.dots_.length) return;
expireEnter ==
    /\ probe.kind = "expire" /\ probe.at = "enter"
    /\ probe' = [probe EXCEPT
                    !.at = IF Len(probe.ds) = 0 THEN "done" ELSE "loop"]
    /\ UNCHANGED <<variant, PROPAGATE_HITS, pc, boardWidth_, boardHeight_,
                   boardOffsets_, resize_, speed_, score_, scoreText, dots_,
                   path, timeouts, rafQueue, spawned, scored, expired, fired,
                   timerSpawns, ticks, pointers>>

\* one pass of the do-while body: dots_[i] is read only behind i < length
expireLoop ==
    /\ probe.kind = "expire" /\ probe.at = "loop"
    /\ IF probe.i < Len(probe.ds)
       THEN IF IsExpired(probe.ds[probe.i + 1], boardHeight_)
            THEN probe' = [probe EXCEPT !.i = @ + 1,
                                        !.reads = @ \cup {probe.i}]
            ELSE probe' = [probe EXCEPT !.at = "splice",
                                        !.reads = @ \cup {probe.i}]
       ELSE probe' = [probe EXCEPT !.at = "splice"]
    /\ UNCHANGED <<variant, PROPAGATE_HITS, pc, boardWidth_, boardHeight_,
                   boardOffsets_, resize_, speed_, score_, scoreText, dots_,
                   path, timeouts, rafQueue, spawned, scored, expired, fired,
                   timerSpawns, ticks, pointers>>

\* splice(i) in the place of splice(0, i)
expireSpliceTail ==
    /\ probe.kind = "expire" /\ probe.at = "splice"
    /\ probe' = [probe EXCEPT
                    !.at = "done",
                    !.out = IF probe.i > 0
                            THEN SubSeq(probe.ds, 1, probe.i)
                            ELSE probe.ds]
    /\ UNCHANGED <<variant, PROPAGATE_HITS, pc, boardWidth_, boardHeight_,
                   boardOffsets_, resize_, speed_, score_, scoreText, dots_,
                   path, timeouts, rafQueue, spawned, scored, expired, fired,
                   timerSpawns, ticks, pointers>>

\* if (i) this.dots_.splice(0, i);
expireSplice ==
    /\ probe.kind = "expire" /\ probe.at = "splice"
    /\ probe' = [probe EXCEPT
                    !.at = "done",
                    !.out = IF probe.i > 0
                            THEN SubSeq(probe.ds, probe.i + 1, Len(probe.ds))
                            ELSE probe.ds]
    /\ UNCHANGED <<variant, PROPAGATE_HITS, pc, boardWidth_, boardHeight_,
                   boardOffsets_, resize_, speed_, score_, scoreText, dots_,
                   path, timeouts, rafQueue, spawned, scored, expired, fired,
                   timerSpawns, ticks, pointers>>

ExpireNext == expireEnter \/ expireLoop \/ expireSplice

ExpireSpec == ExpireInit /\ [][ExpireNext]_vars /\ WF_vars(ExpireNext)

----------------------------------------------------------------------------
(* The game with a record of the circle render_ last drew for each dot      *)

DrawInit ==
    /\ InitGame
    /\ variant # "rAF"
    /\ probe = [kind |-> "draw", drawn |-> {}]

\* the frame timer fires; probe.drawn holds, by dot, the circle that drawDot_
\* passed to ctx.arc in this call of render_
drawTick ==
    /\ pc = "running"
    /\ probe.kind = "draw"
    /\ ticks < MaxTicks
    /\ render_
    /\ probe' = [probe EXCEPT !.drawn =
                    UNION {{[id |-> dots_[i].id, c |-> c] :
                              c \in drawDot_([dots_[i] EXCEPT
                                                !.y = Plus(@, displacement)],
                                            boardWidth_')} :
                           i \in 1..Len(dots_)}]
    /\ UNCHANGED rafQueue

DrawNext ==
    \/ begin
    \/ spawnTimer
    \/ respawn
    \/ drawTick
    \/ resizeBoard_
    \/ \E s \in SpeedInputs : setSpeed_(s)
    \/ \E p \in Points : hitAttempt_(p[1], p[2])

DrawSpec == DrawInit /\ [][DrawNext]_vars

----------------------------------------------------------------------------
(* The game with its frame timer firing for ever: the first dot and the     *)
(* dots that replace a scored one, under speed changes and pointer events   *)

LiveSpeedInputs == { <<>>, <<"2", "8", "8", "0">> }

LiveInit ==
    /\ variant \in {"stroke", "absolute", "percent"}
    /\ PROPAGATE_HITS \in (IF variant = "percent" THEN BOOLEAN ELSE {TRUE})
    /\ pc = "constructed"
    /\ boardWidth_ = InitRect.width * Unit
    /\ boardHeight_ = InitRect.height * Unit
    /\ boardOffsets_ = [x |-> InitRect.left * Unit, y |-> InitRect.top * Unit]
    /\ resize_ = FALSE
    /\ \E s \in LiveSpeedInputs :
          speed_ = IF variant \in {"absolute", "percent"}
                   THEN parseInt(s) ELSE ToNumber(s)
    /\ score_ = 0
    /\ scoreText = <<>>
    /\ dots_ = <<>>
    /\ path = {}
    /\ timeouts = 0
    /\ rafQueue = 0
    /\ spawned = 0
    /\ scored = {}
    /\ expired = {}
    /\ fired = 0
    /\ timerSpawns = 0
    /\ ticks = 0
    /\ pointers = 0
    /\ probe = [kind |-> "live"]

\* the frame timer fires, any number of times: the calls are not counted
liveTick ==
    /\ pc = "running"
    /\ probe.kind = "live"
    /\ ~resize_
    /\ renderDots(boardWidth_, boardHeight_)
    /\ UNCHANGED <<variant, PROPAGATE_HITS, pc, boardWidth_, boardHeight_,
                   boardOffsets_, resize_, speed_, score_, scoreText,
                   timeouts, rafQueue, spawned, scored, fired, timerSpawns,
                   ticks, pointers, probe>>

LiveNext ==
    \/ begin
    \/ liveTick
    \/ respawn
    \/ \E s \in LiveSpeedInputs : setSpeed_(s)
    \/ \E p \in Points : hitAttempt_(p[1], p[2])

LiveSpec == LiveInit /\ [][LiveNext]_vars /\ WF_vars(liveTick)

----------------------------------------------------------------------------
(* Vocabulary of the properties *)

\* the point of a pointer event in board coordinates
LocalX(p) == p[1] * Unit - boardOffsets_.x
LocalY(p) == p[2] * Unit - boardOffsets_.y

\* the point (x, y) lies in the disc of the dot: centre at the dot's pixel
\* position on a board of width w, radius r, border included
Covers(dot, w, x, y) ==
    LET cx == IF variant = "percent"
              THEN ((w - 2 * dot.r - 2 * (STROKE_WIDTH + BOARD_INNER_PADDING) * Unit)
                        * dot.x) \div 100
                   + dot.r + (STROKE_WIDTH + BOARD_INNER_PADDING) * Unit
              ELSE dot.x
    IN  /\ ~dot.y.nan
        /\ (x - cx) <= dot.r /\ (cx - x) <= dot.r
        /\ (y - dot.y.v) <= dot.r /\ (dot.y.v - y) <= dot.r
        /\ (x - cx) * (x - cx) + (y - dot.y.v) * (y - dot.y.v) <= dot.r * dot.r

\* the indices of the live dots that contain the point of event p
Hit(p) == {i \in 1..Len(dots_) :
              Covers(dots_[i], boardWidth_, LocalX(p), LocalY(p))}

Highest(S) == CHOOSE i \in S : \A j \in S : j <= i

\* the dots of seq at the indices outside S, in order
Without(seq, S) ==
    LET F[i \in 0..Len(seq)] ==
            IF i = 0 THEN <<>>
            ELSE IF i \in S THEN F[i - 1] ELSE Append(F[i - 1], seq[i])
    IN  F[Len(seq)]

\* Math.round(MAX_DOT_DIAMETER / (2 * radius)): the integer n with
\* n - 1/2 <= MAX_DOT_DIAMETER / (2 * radius) < n + 1/2
Rounded(radius) ==
    CHOOSE n \in 0..(2 * MAX_DOT_DIAMETER) :
        /\ (2 * n - 1) * 2 * radius <= 2 * MAX_DOT_DIAMETER * Unit
        /\ 2 * MAX_DOT_DIAMETER * Unit < (2 * n + 1) * 2 * radius

RECURSIVE SumRounded(_)
SumRounded(S) ==
    IF S = {} THEN 0
    ELSE LET d == CHOOSE e \in S : TRUE
         IN  Rounded(d.r) + SumRounded(S \ {d})

TopOnly == variant = "percent" /\ ~PROPAGATE_HITS
PropagateAll == (variant = "percent" /\ PROPAGATE_HITS) \/ variant = "absolute"
HasExpiry == variant # "rAF"
TickStep == ticks' = ticks + 1

\* the y of live dot i after this tick's displacement
MovedY(i) == Plus(dots_[i].y, displacement)
\* the top edge of the stroked dot is below the bottom of the board
TopEdgePast(y, r, h) == ~y.nan /\ y.v - r - STROKE_WIDTH * Unit > h
\* the bottom edge of the stroked dot is below the bottom of the board
BottomEdgePast(y, r, h) == ~y.nan /\ y.v + r + STROKE_WIDTH * Unit > h

----------------------------------------------------------------------------
(* Properties *)

\* C1: with PROPAGATE_HITS false a pointer event scores at most one dot: when
\* some live dot contains the point, exactly the containing dot of highest
\* index is scored and removed and the others stay in order; when none does,
\* nothing is scored or removed.
C1_TopDotOnly ==
    [][\A p \in Points :
          (TopOnly /\ hitAttempt_(p[1], p[2])) =>
             IF Hit(p) = {}
             THEN dots_' = dots_ /\ scored' = scored /\ score_' = score_
             ELSE /\ dots_' = Without(dots_, {Highest(Hit(p))})
                  /\ scored' = scored \cup {dots_[Highest(Hit(p))]}
                  /\ Cardinality(scored') = Cardinality(scored) + 1]_vars

\* C1 witness: one pointer event has scored one dot while an older dot that
\* contains the same point is still live
C1_Witness ==
    /\ TopOnly /\ pointers = 1 /\ ticks = MaxTicks
    /\ \E p \in Points : \E d \in scored : \E i \in 1..Len(dots_) :
          /\ dots_[i].id < d.id
          /\ Covers(d, boardWidth_, LocalX(p), LocalY(p))
          /\ Covers(dots_[i], boardWidth_, LocalX(p), LocalY(p))

\* C2: when hits propagate, one pointer event scores and removes every live
\* dot that contains the point, the score grows by the sum of their values,
\* and the other dots stay in order.
C2_AllDots ==
    [][\A p \in Points :
          (PropagateAll /\ hitAttempt_(p[1], p[2])) =>
             /\ dots_' = Without(dots_, Hit(p))
             /\ scored' = scored \cup {dots_[i] : i \in Hit(p)}
             /\ score_' = score_ + SumRounded({dots_[i] : i \in Hit(p)})]_vars

\* C2 witness: one pointer event has scored two dots
C2_Witness ==
    /\ PropagateAll /\ pointers = 1
    /\ Cardinality(scored) = 2 /\ score_ = SumRounded(scored)
    /\ timeouts = 2

\* C3 (as claimed): a tick's expireDots removes a dot if and only if
\* y + r + strokeWidth > boardHeight holds for it at that moment.
C3_Original ==
    [][(TickStep /\ HasExpiry) =>
          \A i \in 1..Len(dots_) :
             (dots_[i].id \notin Ids(dots_')) <=>
                BottomEdgePast(MovedY(i), dots_[i].r, boardHeight_')]_vars

\* C3 (amended): a tick's expireDots removes exactly the longest prefix of
\* liveDots whose dots all have y - r - strokeWidth > boardHeight: a dot is
\* removed if and only if it and every dot before it satisfy that.
C3_ExpiredPrefix ==
    [][(TickStep /\ HasExpiry) =>
          \A i \in 1..Len(dots_) :
             (dots_[i].id \notin Ids(dots_')) <=>
                \A j \in 1..i :
                   TopEdgePast(MovedY(j), dots_[j].r, boardHeight_')]_vars

\* C3 witness: expiry has removed a dot and left a younger one
C3_Witness ==
    /\ HasExpiry /\ expired # {} /\ dots_ # <<>>
    /\ \A i \in 1..Len(dots_) : \A e \in expired : e < dots_[i].id

\* C4 (as claimed): at the end of a tick the dots that satisfy the expiry
\* condition form a prefix of liveDots, so after expireDots no live dot
\* satisfies it.
C4_Original ==
    [][(TickStep /\ HasExpiry) =>
          /\ \A i, j \in 1..Len(dots_) :
                (i < j /\ TopEdgePast(MovedY(j), dots_[j].r, boardHeight_'))
                   => TopEdgePast(MovedY(i), dots_[i].r, boardHeight_')
          /\ \A k \in 1..Len(dots_') :
                ~TopEdgePast(dots_'[k].y, dots_'[k].r, boardHeight_')]_vars

\* C5: every scored dot has exactly one respawn, fired or pending; a pending
\* respawn goes away only by firing, which appends one dot; the spawn timer
\* leaves the pending respawns alone; and each pending respawn fires.
C5_Respawn ==
    /\ [](fired + timeouts = Cardinality(scored))
    /\ [][timeouts' < timeouts =>
             /\ timeouts' = timeouts - 1
             /\ fired' = fired + 1
             /\ Len(dots_') = Len(dots_) + 1
             /\ SubSeq(dots_', 1, Len(dots_)) = dots_
             /\ timerSpawns' = timerSpawns]_vars
    /\ [][timerSpawns' # timerSpawns =>
             (timeouts' = timeouts /\ fired' = fired)]_vars
    /\ \A n \in 0..MaxScored :
          (fired + timeouts > n) ~> (fired > n)

\* C5 witness: of two scored dots one respawn has fired and one is pending
C5_Witness ==
    Cardinality(scored) = 2 /\ fired = 1 /\ timeouts = 1

\* C6: the score is a natural number, the sum of the values of the dots
\* scored so far; it never decreases and only a pointer event changes it.
C6_Score ==
    /\ [](score_ \in Nat /\ score_ = SumRounded(scored))
    /\ [][score_' >= score_]_vars
    /\ [][(tick \/ animationFrame \/ updateBoard \/ spawnTimer \/ respawn
             \/ resizeBoard_ \/ \E s \in SpeedInputs : setSpeed_(s))
          => score_' = score_]_vars

\* C6 witness: a score made of two dots, with ticks, a respawn and a speed
\* change behind it
C6_Witness ==
    /\ score_ = MAX_DOT_DIAMETER \div MIN_DOT_DIAMETER + 1
    /\ fired >= 1 /\ ticks = MaxTicks /\ speed_.nan

\* C7: for the radii getRandomRadius_ returns, calculateDotScore is a
\* positive integer and does not increase as the radius grows.
C7_PositiveMonotone ==
    (probe.kind = "score" /\ probe.done) =>
       /\ probe.s1 \in Nat \ {0}
       /\ probe.s2 \in Nat \ {0}
       /\ (probe.r1 <= probe.r2 => probe.s1 >= probe.s2)

\* C7 witness: two radii scored, the smaller worth more
C7_Witness ==
    /\ probe.kind = "score" /\ probe.done
    /\ probe.r1 < probe.r2 /\ probe.s1 > probe.s2

\* C8 (as claimed): of two radii the smaller is worth strictly more.
C8_Original ==
    (probe.kind = "score" /\ probe.done /\ probe.r1 < probe.r2)
       => probe.s1 > probe.s2

\* C8 (amended): of two radii the smaller is worth at least as much, and
\* strictly more when MAX_DOT_DIAMETER / diameter differs by 1 or more.
C8_WeaklyMonotone ==
    (probe.kind = "score" /\ probe.done /\ probe.r1 < probe.r2) =>
       /\ probe.s1 >= probe.s2
       /\ (MAX_DOT_DIAMETER * Unit * (2 * probe.r2 - 2 * probe.r1)
              >= (2 * probe.r1) * (2 * probe.r2)
           => probe.s1 > probe.s2)

\* C8 witness: two different radii with the same score
C8_Witness ==
    /\ probe.kind = "score" /\ probe.done
    /\ probe.r1 < probe.r2 /\ probe.s1 = probe.s2

\* C9: scoring a dot of radius 50 (MAX_DOT_DIAMETER / 2) adds 1 to the score
\* and scoring a dot of radius 5 (MIN_DOT_DIAMETER / 2) adds 10.
C9_EndValues ==
    [][\A d \in scored' :
          (scored' = scored \cup {d} /\ d \notin scored) =>
             /\ (2 * d.r = MAX_DOT_DIAMETER * Unit => score_' = score_ + 1)
             /\ (2 * d.r = MIN_DOT_DIAMETER * Unit =>
                    score_' = score_ + MAX_DOT_DIAMETER \div MIN_DOT_DIAMETER)
       ]_vars

\* C9 witness: one dot of each of the two radii has been scored by its own
\* pointer event
C9_Witness ==
    /\ pointers = 2
    /\ \E a, b \in scored :
          /\ scored = {a, b}
          /\ 2 * a.r = MAX_DOT_DIAMETER * Unit
          /\ 2 * b.r = MIN_DOT_DIAMETER * Unit

\* C10 (as claimed): every dot pushed by addDot_ has y = -radius -
\* strokeWidth, so its stroked circle is wholly above the board.
C10_Original ==
    [][spawned' = spawned + 1 =>
          LET d == dots_'[Len(dots_')]
          IN  /\ d.y = Num(-d.r - STROKE_WIDTH * Unit)
              /\ d.y.v + d.r + STROKE_WIDTH * Unit <= 0]_vars

\* C11 (as claimed): every radius addDot_ produces is a whole number of
\* pixels in [MIN_DOT_DIAMETER / 2, MAX_DOT_DIAMETER / 2].
C11_Original ==
    \A i \in 1..Len(dots_) :
       /\ dots_[i].r % Unit = 0
       /\ MIN_DOT_DIAMETER * Unit <= 2 * dots_[i].r
       /\ 2 * dots_[i].r <= MAX_DOT_DIAMETER * Unit

\* C11 (amended): every radius addDot_ produces is half of a whole diameter
\* in [MIN_DOT_DIAMETER, MAX_DOT_DIAMETER], so a multiple of half a pixel in
\* [MIN_DOT_DIAMETER / 2, MAX_DOT_DIAMETER / 2]; whole only when the diameter
\* is even.
C11_HalfInteger ==
    \A i \in 1..Len(dots_) :
       /\ (2 * dots_[i].r) % Unit = 0
       /\ MIN_DOT_DIAMETER * Unit <= 2 * dots_[i].r
       /\ 2 * dots_[i].r <= MAX_DOT_DIAMETER * Unit
       /\ (dots_[i].r % Unit = 0 <=> ((2 * dots_[i].r) \div Unit) % 2 = 0)

\* C11 witness: a dot spawned with a radius that is not a whole number
C11_Witness ==
    /\ probe.kind = "spawn"
    /\ \E i \in 1..Len(dots_) : dots_[i].r % Unit # 0

\* C12 (as claimed): on every board width, the horizontal extent of a freshly
\* spawned dot, x - r - strokeWidth .. x + r + strokeWidth at its resolved
\* pixel x, lies within [0, boardWidth].
C12_Original ==
    \A i \in 1..Len(dots_) :
       LET d == dots_[i]
           x == resolveX(d, boardWidth_)
       IN  /\ 0 <= x - d.r - STROKE_WIDTH * Unit
           /\ x + d.r + STROKE_WIDTH * Unit <= boardWidth_

\* C12 (amended): the horizontal extent of a freshly spawned dot lies within
\* [0, boardWidth] when boardWidth >= 2 * r + 2 * strokeWidth + padding; on a
\* narrower board the placement range is inverted and a dot placed at its
\* lower end reaches past the right edge.
C12_FitsWideBoard ==
    \A i \in 1..Len(dots_) :
       LET d == dots_[i]
           x == resolveX(d, boardWidth_)
           need == 2 * d.r + (2 * STROKE_WIDTH + BOARD_INNER_PADDING) * Unit
           lower == d.r + (STROKE_WIDTH + BOARD_INNER_PADDING) * Unit
       IN  /\ boardWidth_ >= need =>
                /\ 0 <= x - d.r - STROKE_WIDTH * Unit
                /\ x + d.r + STROKE_WIDTH * Unit <= boardWidth_
           /\ (boardWidth_ < need /\ x = lower) =>
                x + d.r + STROKE_WIDTH * Unit > boardWidth_

\* C12 witness: a dot of the largest radius spawned on the narrowest board
\* that holds it, by absolute x and by percentage
C12_Witness ==
    /\ probe.kind = "spawn"
    /\ variant \in {"absolute", "percent"}
    /\ \E i \in 1..Len(dots_) :
          /\ 2 * dots_[i].r = MAX_DOT_DIAMETER * Unit
          /\ boardWidth_ = (MAX_DOT_DIAMETER + 2 * STROKE_WIDTH
                               + BOARD_INNER_PADDING) * Unit
          /\ resolveX(dots_[i], boardWidth_) + dots_[i].r
                + STROKE_WIDTH * Unit = boardWidth_

\* the range percentToPixel_ spreads the centres over, on a board of width w
RangeMin(d) == d.r + (STROKE_WIDTH + BOARD_INNER_PADDING) * Unit
RangeMax(d, w) == w - d.r - (STROKE_WIDTH + BOARD_INNER_PADDING) * Unit

\* C13 (as claimed): in the percent version every live dot is drawn and
\* hit-tested at a pixel x with r + strokeWidth + padding <= x <=
\* boardWidth - r - strokeWidth - padding, for the board width of the most
\* recent tick.
C13_Original ==
    \A i \in 1..Len(dots_) :
       LET x == resolveX(dots_[i], boardWidth_)
       IN  /\ RangeMin(dots_[i]) <= x
           /\ x <= RangeMax(dots_[i], boardWidth_)

\* C13 (amended): in the percent version every live dot is drawn and
\* hit-tested at the pixel x that lies d.x percent of the way from
\* r + strokeWidth + padding to boardWidth - r - strokeWidth - padding, for
\* the board width of the most recent tick: between the two in that order on
\* a board at least 2 * (r + strokeWidth + padding) wide, in the opposite
\* order on a narrower one, and with the dot inside the board when
\* boardWidth >= 2 * r + 2 * strokeWidth + padding.
C13_AdaptsToResize ==
    /\ [](\A i \in 1..Len(dots_) :
             LET d == dots_[i]
                 x == resolveX(d, boardWidth_)
                 lo == RangeMin(d)
                 hi == RangeMax(d, boardWidth_)
             IN  /\ lo <= hi => (lo <= x /\ x <= hi)
                 /\ hi <= lo => (hi <= x /\ x <= lo)
                 /\ d.x = 0 => x = lo
                 /\ d.x = 100 => x = hi
                 /\ boardWidth_ >= 2 * d.r
                        + (2 * STROKE_WIDTH + BOARD_INNER_PADDING) * Unit
                    => /\ 0 <= x - d.r - STROKE_WIDTH * Unit
                       /\ x + d.r + STROKE_WIDTH * Unit <= boardWidth_)
    /\ [][\A p \in Points :
             hitAttempt_(p[1], p[2]) =>
                /\ scored' = scored <=> Hit(p) = {}
                /\ \A d \in scored' \ scored :
                      Covers(d, boardWidth_, LocalX(p), LocalY(p))]_vars

\* C13 witness: after a resize to the narrower board a dot placed at 100
\* percent has been scored at its place on that board
C13_Witness ==
    /\ probe.kind = "spawn" /\ variant = "percent"
    /\ boardWidth_ # InitRect.width * Unit
    /\ \E d \in scored : d.x = 100

\* the double y has the value of the fraction t / d
FEquals(y, t, d) ==
    IF t = 0 THEN y.m = <<>>
    ELSE /\ y.m # <<>>
         /\ y.neg = (t < 0)
         /\ y.e <= 0
         /\ LET q == DivBits(BitsOf(IF t < 0 THEN -t ELSE t) \o Zeros(-y.e), d)
            IN  q.rem = 0 /\ q.q = y.m

\* the double y is within 2^-29 of the fraction t / d: their magnitudes cut
\* to 30 binary places differ by one place at most
FNear(y, t, d) ==
    LET k == 30
        yk == IF y.m = <<>> \/ SignificandBits + y.e + k <= 0 THEN <<>>
              ELSE IF y.e + k >= 0 THEN y.m \o Zeros(y.e + k)
              ELSE SubSeq(y.m, 1, SignificandBits + y.e + k)
        tk == DivBits(BitsOf(IF t < 0 THEN -t ELSE t) \o Zeros(k), d).q
    IN  /\ y.m = <<>> \/ t = 0 \/ y.neg = (t < 0)
        /\ yk = tk \/ AddBits(yk, <<1>>) = tk \/ AddBits(tk, <<1>>) = yk

\* dot 1 is live and has been through at least one tick
Dot1Ticked ==
    /\ probe.kind = "float" /\ probe.n > 0
    /\ dots_ # <<>> /\ dots_[1].id = 1
\* twice the frame rate times (spawn y + n * s / f), for dot 1: a whole number
Dot1Exact ==
    ((2 * spawnY(dots_[1].r)) \div Unit) * fps + 2 * probe.n * speed_.v

\* C14 (as claimed): after N ticks at the constant speed s and frame rate f
\* the y of a live dot equals its y at spawn plus exactly N * s / f.
C14_Original ==
    Dot1Ticked => FEquals(probe.y, Dot1Exact, 2 * fps)

\* C14 (amended): after N ticks at the constant speed s and frame rate f,
\* whatever spawns, pointer events and resizes come between them, the y of a
\* live dot is its y at spawn plus N * s / f up to the rounding of double
\* arithmetic (here within 2^-29 pixel), and exactly that when s / f is a
\* whole number of quarter pixels.
C14_UpToRounding ==
    Dot1Ticked =>
       /\ dots_[1].y = Num(spawnY(dots_[1].r)
                             + probe.n * ((speed_.v * Unit) \div fps))
       /\ FNear(probe.y, Dot1Exact, 2 * fps)
       /\ (4 * speed_.v) % fps = 0 => FEquals(probe.y, Dot1Exact, 2 * fps)

\* C14 witness: dot 1 after MaxFloatTicks ticks at a speed whose s / f is no
\* binary fraction, with a younger dot, a pointer event and a resize behind
\* it
C14_Witness ==
    /\ Dot1Ticked /\ probe.n = MaxFloatTicks
    /\ (4 * speed_.v) % fps # 0
    /\ Len(dots_) = 2 /\ pointers > 0 /\ boardWidth_ # InitRect.width * Unit

\* C15 (as claimed): on a board 600 high at speed 60 and 60 frames per
\* second, a dot of radius 50 at y = -55 is at y = -54 after one tick and is
\* removed by the expiry of tick 655.
C15_Original ==
    probe.kind = "fall" =>
       /\ ticks = 1 => (dots_ # <<>> /\ dots_[1].y = Num(-54 * Unit))
       /\ dots_ = <<>> <=> ticks >= 655

\* C15 (amended): that dot is at y = -54 after one tick and is removed by the
\* expiry of tick 707, the first tick that leaves y - r - strokeWidth >
\* boardHeight (y = 652); after tick 706 it is at y = 651 and still live.
C15_Tick707 ==
    probe.kind = "fall" =>
       /\ ticks = 1 => (dots_ # <<>> /\ dots_[1].y = Num(-54 * Unit))
       /\ ticks = 706 => (dots_ # <<>> /\ dots_[1].y = Num(651 * Unit))
       /\ dots_ = <<>> <=> ticks >= 707
       /\ expired = (IF ticks >= 707 THEN {1} ELSE {})

\* C15 witness: tick 707 has removed the dot
C15_Witness ==
    probe.kind = "fall" /\ ticks = 707 /\ dots_ = <<>> /\ expired = {1}

\* live dot i before the step is live dot j after it
Stays(i, j) ==
    /\ i \in 1..Len(dots_) /\ j \in 1..Len(dots_')
    /\ dots_[i].id = dots_'[j].id

\* C16: the radius and the stored x of a dot never change, and only a tick
\* changes its y: every other step leaves the r, x and y of the dots that stay
\* in dots_ as they were.
C16_FrameEffect ==
    [][\A i \in 1..Len(dots_) : \A j \in 1..Len(dots_') :
          Stays(i, j) =>
             /\ dots_'[j].r = dots_[i].r
             /\ dots_'[j].x = dots_[i].x
             /\ ~TickStep => dots_'[j].y = dots_[i].y]_vars

\* C16 witness: the first dot, moved by two ticks, still live after a younger
\* dot was scored and replaced and the board was resized
C16_Witness ==
    /\ variant = "percent" /\ ticks = MaxTicks
    /\ boardWidth_ # InitRect.width * Unit
    /\ fired >= 1 /\ pointers >= 1
    /\ \E i \in 1..Len(dots_) :
          /\ dots_[i].id = 1 /\ ~dots_[i].y.nan
          /\ dots_[i].y.v > spawnY(dots_[i].r)

\* C17 as stated: every tick leaves every dot that stays live strictly lower
\* on the board, whatever the speed
C17_Original ==
    [][TickStep =>
          \A i \in 1..Len(dots_) : \A j \in 1..Len(dots_') :
             Stays(i, j) => Gt(dots_'[j].y, dots_[i].y)]_vars

\* C17: a tick moves a dot whose y is a number strictly down when the speed is
\* positive, leaves it where it is when the speed is 0, moves it up when the
\* speed is negative, and makes its y NaN when the speed is NaN; parseInt of
\* the control's value can deliver all four.
C17_DownIffPositive ==
    [][TickStep =>
          \A i \in 1..Len(dots_) : \A j \in 1..Len(dots_') :
             (Stays(i, j) /\ ~dots_[i].y.nan) =>
                /\ (~speed_.nan /\ speed_.v > 0) => Gt(dots_'[j].y, dots_[i].y)
                /\ (~speed_.nan /\ speed_.v = 0) => dots_'[j].y = dots_[i].y
                /\ (~speed_.nan /\ speed_.v < 0) => Gt(dots_[i].y, dots_'[j].y)
                /\ speed_.nan => dots_'[j].y.nan]_vars

\* C17 witness: a dot that a tick at positive speed has moved below its
\* spawning height
C17_Witness ==
    /\ ticks >= 1 /\ ~speed_.nan /\ speed_.v > 0
    /\ \E i \in 1..Len(dots_) :
          ~dots_[i].y.nan /\ dots_[i].y.v > spawnY(dots_[i].r)

\* C18 as stated: with a speed that is not a number, a tick leaves the y of
\* every dot that stays live unchanged and a number (so that the dot can be
\* hit and can expire later)
C18_Original ==
    [][(TickStep /\ speed_.nan) =>
          \A i \in 1..Len(dots_) : \A j \in 1..Len(dots_') :
             (Stays(i, j) /\ ~dots_[i].y.nan) =>
                /\ dots_'[j].y = dots_[i].y
                /\ ~dots_'[j].y.nan]_vars

\* C19: a step that changes the speed moves no dot and is no tick, and the
\* speed after it is the value of the control as parseInt reads it, whatever
\* the speed was before; every tick displaces every dot that stays live by
\* the speed of that moment over the frame rate, so the last change before a
\* tick decides its displacement.
C19_LastSpeedWins ==
    [][/\ speed_' # speed_ =>
             /\ dots_' = dots_
             /\ ~TickStep
             /\ \E s \in SpeedInputs : speed_' = parseInt(s)
       /\ TickStep =>
             \A i \in 1..Len(dots_) : \A j \in 1..Len(dots_') :
                Stays(i, j) =>
                   dots_'[j].y =
                      Plus(dots_[i].y,
                           IF speed_.nan THEN NaN
                           ELSE Num((speed_.v * Unit) \div fps))]_vars

\* C19 witness: the first dot back at its spawning height after one tick at a
\* positive speed and, the speed changed in between, one tick at the opposite
\* speed
C19_Witness ==
    /\ variant \in {"absolute", "percent"} /\ ticks = 2
    /\ ~speed_.nan /\ speed_.v < 0
    /\ \E i \in 1..Len(dots_) :
          /\ dots_[i].id = 1 /\ ~dots_[i].y.nan
          /\ dots_[i].y.v = spawnY(dots_[i].r)

Geometry == <<boardWidth_, boardHeight_, boardOffsets_>>

\* C20: a step that raises the resize flag changes nothing else; the width,
\* height and offsets of the board change only in a tick that finds the flag
\* raised, and a pointer event that arrives while it is raised is tested with
\* the offsets and width of before; that tick expires dots against the height
\* it has just read, and the flag is down after every tick.
C20_DeferredResize ==
    [][/\ (resize_' /\ ~resize_) =>
             UNCHANGED <<Geometry, dots_, path, speed_, score_, ticks,
                         timeouts, pointers>>
       /\ Geometry' # Geometry => (TickStep /\ resize_)
       /\ TickStep => ~resize_'
       /\ (TickStep /\ resize_ /\ variant = "percent") =>
             /\ \E rect \in Rects :
                   Geometry' = <<rect.width * Unit, rect.height * Unit,
                                 [x |-> rect.left * Unit, y |-> rect.top * Unit]>>
             /\ \A i \in 1..Len(dots_) :
                   (dots_[i].id \notin Ids(dots_')) =>
                      TopEdgePast(MovedY(i), dots_[i].r, boardHeight_')
             /\ dots_' # <<>> =>
                   \E i \in 1..Len(dots_) :
                      /\ dots_[i].id = dots_'[1].id
                      /\ ~TopEdgePast(MovedY(i), dots_[i].r, boardHeight_')
       /\ (resize_ /\ pointers' = pointers + 1) =>
             \E p \in Points : (scored' # scored) <=> (Hit(p) # {})]_vars

\* C20 witness: a resize waiting for its tick after an earlier one was taken
\* up by a tick, a pointer event having scored a dot
C20_Witness ==
    /\ variant = "percent" /\ resize_
    /\ boardWidth_ # InitRect.width * Unit
    /\ ticks >= 1 /\ pointers >= 1 /\ scored # {}

\* the step is begin()
BeginStep == pc = "constructed" /\ pc' = "running"

\* C21 as stated: begin() leaves exactly one dot, advanced and drawn by one
\* tick
C21_Original ==
    [][BeginStep => (Len(dots_') = 1 /\ ticks' = ticks + 1)]_vars

\* C21: begin() runs no tick: it arms the two timers and, except in the
\* requestAnimationFrame version, adds exactly one dot, which right after
\* begin() is at its spawning height, neither advanced nor drawn; in the
\* requestAnimationFrame version no dot is live after begin().  Nothing
\* happens before begin().
C21_SpawnsWithoutTick ==
    /\ [](pc = "constructed" => (dots_ = <<>> /\ ticks = 0 /\ spawned = 0))
    /\ [][BeginStep =>
             /\ ticks' = 0 /\ path' = {} /\ timerSpawns' = 0
             /\ IF variant = "rAF" THEN dots_' = <<>> /\ spawned' = 0
                ELSE /\ Len(dots_') = 1 /\ spawned' = 1
                     /\ dots_'[1].y = Num(spawnY(dots_'[1].r))]_vars

\* C21 witness: right after begin(), one dot at its spawning height and no
\* tick yet
C21_Witness ==
    /\ pc = "running" /\ variant # "rAF"
    /\ ticks = 0 /\ timerSpawns = 0 /\ fired = 0
    /\ Len(dots_) = 1 /\ dots_[1].y = Num(spawnY(dots_[1].r))

\* C22: the live dots are in the order in which they were spawned, each at
\* most once, and all of them were spawned; a dot that was not live before a
\* step is the newest dot, at the end, behind all the dots of before.
C22_SpawnOrder ==
    /\ [](/\ \A i \in 1..Len(dots_) : dots_[i].id \in 1..spawned
          /\ \A i \in 1..Len(dots_) : \A j \in 1..Len(dots_) :
                i < j => dots_[i].id < dots_[j].id)
    /\ [][\A j \in 1..Len(dots_') :
             dots_'[j].id \notin Ids(dots_) =>
                /\ j = Len(dots_')
                /\ dots_'[j].id = spawned + 1
                /\ SubSeq(dots_', 1, j - 1) = dots_]_vars

\* C22 witness: two live dots around the gap of a removed one, the later one
\* appended after the removal
C22_Witness ==
    \E i \in 1..(Len(dots_) - 1) :
       /\ dots_[i + 1].id > dots_[i].id + 1
       /\ dots_[i + 1].id = spawned

\* the speed is a positive number
Positive == ~speed_.nan /\ speed_.v > 0

\* C23 as stated: when the speed is a positive number from some point on and
\* the frame timer keeps firing, each live dot is removed in the end
C23_Original ==
    \A k \in 1..(MaxScored + 1) :
       (<>[]Positive) => ((k \in Ids(dots_)) ~> (k \notin Ids(dots_)))

\* live dot i was drawn by the most recent tick, as circle d.c
DrawnAs(i, d) == d \in probe.drawn /\ d.id = dots_[i].id

\* C24: for a live dot that the most recent tick drew, the circle the
\* containment test of a pointer event builds from the dot and the stored
\* board width is the circle that tick drew, whatever spawns, resize
\* notifications, speed changes and pointer events came in between; and a
\* pointer event scores such a dot only if the point is in that circle.
C24_TestedAsDrawn ==
    /\ [](\A i \in 1..Len(dots_) : \A d \in probe.drawn :
             DrawnAs(i, d) => drawDot_(dots_[i], boardWidth_) = {d.c})
    /\ [][pointers' = pointers + 1 =>
             \E p \in Points :
                \A i \in 1..Len(dots_) : \A d \in probe.drawn :
                   (DrawnAs(i, d) /\ dots_[i] \in scored') =>
                      InCircle(d.c, LocalX(p), LocalY(p))]_vars

\* C24 witness: a dot drawn by the last tick, still live after a pointer
\* event scored another dot, a spawn and a resize notification
C24_Witness ==
    /\ probe.kind = "draw" /\ variant = "percent"
    /\ resize_ /\ scored # {} /\ Len(dots_) >= 2
    /\ \E i \in 1..Len(dots_) : \E d \in probe.drawn : DrawnAs(i, d)

\* C25 as stated: in the version that tests the current path first, a
\* pointer event at a point inside a live dot that the last tick drew scores
\* that dot, whatever pointer events came since that tick
C25_Original ==
    [][\A p \in Points :
          (variant = "stroke" /\ hitAttempt_(p[1], p[2])) =>
             \A i \in 1..Len(dots_) : \A d \in probe.drawn :
                (DrawnAs(i, d) /\ InCircle(d.c, LocalX(p), LocalY(p)))
                   => dots_[i] \in scored']_vars

\* the spawn numbers of the scored dots
ScoredIds == {d.id : d \in scored}

\* C26: the dots spawned so far are the live, the scored and the expired
\* ones, and no dot is in two of these sets or twice in one; a dot that is
\* scored or expired was live just before and is never live again; and once
\* begin() has run the number of dots spawned is the first dot of begin()
\* (none in the requestAnimationFrame version) plus the firings of the spawn
\* timer plus the respawn callbacks that have fired.
C26_Conservation ==
    /\ [](/\ Ids(dots_) \cup ScoredIds \cup expired = 1..spawned
          /\ Ids(dots_) \cap ScoredIds = {}
          /\ Ids(dots_) \cap expired = {}
          /\ ScoredIds \cap expired = {}
          /\ Cardinality(Ids(dots_)) = Len(dots_)
          /\ Cardinality(ScoredIds) = Cardinality(scored)
          /\ pc = "running" =>
                spawned = (IF variant = "rAF" THEN 0 ELSE 1)
                             + timerSpawns + fired)
    /\ [][/\ scored \subseteq scored' /\ expired \subseteq expired'
          /\ (scored' \ scored) \subseteq Range(dots_)
          /\ (expired' \ expired) \subseteq Ids(dots_)
          /\ \A j \in 1..Len(dots_') :
                dots_'[j].id \in Ids(dots_) \/ dots_'[j].id = spawned + 1]_vars

\* C26 witness: one dot scored, one expired and one live, after a firing of
\* the spawn timer and a respawn
C26_Witness ==
    /\ scored # {} /\ expired # {} /\ dots_ # <<>>
    /\ timerSpawns >= 1 /\ fired >= 1
    /\ spawned = 1 + timerSpawns + fired

\* the point p of a pointer event is in the disc of the dot, as it lies on
\* the board now
Inside(dot, p) ==
    LET dx == LocalX(p) - resolveX(dot, boardWidth_)
        dy == LocalY(p) - dot.y.v
    IN  /\ ~dot.y.nan
        /\ dx <= dot.r /\ -dx <= dot.r /\ dy <= dot.r /\ -dy <= dot.r
        /\ dx * dx + dy * dy <= dot.r * dot.r

\* C27: a pointer event at a point inside no live dot, or on an empty list,
\* leaves the live dots, the score and the displayed score as they were and
\* sets no respawn timeout, with PROPAGATE_HITS set or not.
C27_MissChangesNothing ==
    [][\A p \in Points :
          (/\ hitAttempt_(p[1], p[2])
           /\ \A i \in 1..Len(dots_) : ~Inside(dots_[i], p))
          => UNCHANGED <<dots_, score_, scoreText, timeouts, scored>>]_vars

\* C27 witness: pointer events that all missed, with a dot live on the board
\* after a tick, in the percent version with PROPAGATE_HITS not set
C27_Witness ==
    /\ variant = "percent" /\ ~PROPAGATE_HITS
    /\ pointers >= 1 /\ ticks >= 1 /\ dots_ # <<>>
    /\ scored = {} /\ score_ = 0 /\ scoreText = <<>> /\ timeouts = 0

\* C28: expireDots_ comes to its end on every list; it reads dots_[i] only
\* for i below the length; what it leaves is the list without a prefix, in
\* the order of before, the removed dots all being past the bottom of the
\* board and the first dot left not; a list of dots that are all past the
\* bottom is left empty, and an empty list is left as it is without a read.
\* It is the array render_ goes on with.
C28_ExpireDots ==
    /\ [](probe.kind = "expire" =>
             /\ probe.i \in 0..Len(probe.ds)
             /\ probe.reads \subseteq 0..(Len(probe.ds) - 1)
             /\ probe.at = "done" =>
                   /\ probe.out = SubSeq(probe.ds, probe.i + 1, Len(probe.ds))
                   /\ probe.out = expireDots_(probe.ds, boardHeight_)
                   /\ \A k \in 1..probe.i :
                         TopEdgePast(probe.ds[k].y, probe.ds[k].r, boardHeight_)
                   /\ probe.out # <<>> =>
                         ~TopEdgePast(probe.out[1].y, probe.out[1].r,
                                      boardHeight_)
                   /\ (\A k \in 1..Len(probe.ds) :
                          TopEdgePast(probe.ds[k].y, probe.ds[k].r,
                                      boardHeight_))
                         => probe.out = <<>>
                   /\ probe.ds = <<>> =>
                         (probe.out = <<>> /\ probe.reads = {}))
    /\ <>(probe.kind = "expire" /\ probe.at = "done")

\* C28 witness: a list of the greatest length of which expireDots_ removed
\* all dots but the last, a dot with a NaN y
C28_Witness ==
    /\ probe.kind = "expire" /\ probe.at = "done"
    /\ Len(probe.ds) = MaxExpireLen /\ probe.i = MaxExpireLen - 1
    /\ Len(probe.out) = 1 /\ probe.out[1].y.nan

====
